---- MODULE Spec2Model ----
(***************************************************************************)
(* A model of the MicroPython MPU6886 driver (mpu6886.py): the register    *)
(* protocol on the I2C bus, the configuration calls, the FIFO reads, the   *)
(* sample decoder and the gyroscope calibration loop.                      *)
(*                                                                         *)
(* The device is a register file: a write stores a byte, a read of a       *)
(* configuration register returns the byte stored, and a read of an output *)
(* register (sensor data, FIFO count, FIFO data port) returns whatever the *)
(* device holds at that moment, which is an input of the reading action.   *)
(* Every driver call runs to completion without interleaving (the driver   *)
(* is single-threaded); calibrate, whose loop may take any number of       *)
(* passes, is one action per pass.  `log` holds the bus transactions and   *)
(* sleeps of the call in progress or last ended, in program order.         *)
(*                                                                         *)
(* Two further programs use the driver: the polling loop of the examples   *)
(* (its frame is `main`), over a FIFO that the device fills and a bulk     *)
(* read drains; and two callers of _register_three_shorts on two threads   *)
(* (their frames are `readers`), whose calls interleave between the bus    *)
(* read and the unpack.                                                    *)
(*                                                                         *)
(* Floating-point values are exact rationals <<num, den>>; the sensitivity *)
(* divisors, some of which have one decimal, are kept in tenths.           *)
(***************************************************************************)
EXTENDS Integers, Sequences, FiniteSets, TLC

VARIABLES
    regs,         \* the device's configuration registers: address -> byte
    fifo_bytes,   \* the byte count the device holds in FIFO_COUNTH, FIFO_COUNTL
    constructed,  \* an MPU6886 object exists (__init__ returned)
    accel_so,     \* self._accel_so, in tenths
    gyro_so,      \* self._gyro_so, in tenths
    accel_sf,     \* self._accel_sf, a rational
    gyro_sf,      \* self._gyro_sf, a rational
    gyro_offset,  \* self._gyro_offset, a triple of rationals
    call,         \* the call in progress or last ended: op, arg, result, ret
    log,          \* its bus transactions and sleeps, in order
    pc,           \* "idle", or "calibrate" inside calibrate's loop
    cal,          \* calibrate's locals: count, n, ox, oy, oz, delay, failAt
                  \* and the offset stored when it was called
    buf,          \* the byte buffer passed to the call (<<>>: none passed)
    xs, ys, zs,   \* the caller's per-axis output arrays
    faults,       \* transport failures so far
    main,         \* the polling loop's locals: pc, count, samples_read
    readers       \* per thread, its _register_three_shorts call: pc, register,
                  \* the bytes its bus read delivered, what it returned

vars == <<regs, fifo_bytes, constructed, accel_so, gyro_so, accel_sf, gyro_sf,
          gyro_offset, call, log, pc, cal, buf, xs, ys, zs, faults,
          main, readers>>

drvVars == <<constructed, accel_so, gyro_so, accel_sf, gyro_sf>>
bufVars == <<buf, xs, ys, zs>>
appVars == <<main, readers>>

----------------------------------------------------------------------------
(* Register addresses and bit patterns.                                    *)

_CONFIG == 26            \* 0x1a
_GYRO_CONFIG == 27       \* 0x1b
_ACCEL_CONFIG == 28      \* 0x1c
_ACCEL_XOUT_H == 59      \* 0x3b
_TEMP_OUT_H == 65        \* 0x41
_GYRO_XOUT_H == 67       \* 0x43
_PWR_MGMT_1 == 107       \* 0x6b
_WHO_AM_I == 117         \* 0x75
REG_FIFO_EN == 35        \* 0x23
REG_USER_CTRL == 106     \* 0x6A
REG_PWR_MGMT_1 == 107    \* 0x6B
REG_SMPLRT_DIV == 25     \* 0x19
REG_ACCEL_CONFIG2 == 29  \* 0x1D
REG_GYRO_CONFIG == 27    \* 0x1B
REG_FIFO_COUNTH == 114   \* 0x72
REG_FIFO_R_W == 116      \* 0x74

ACCEL_FS_SEL_2G == 0
ACCEL_FS_SEL_4G == 8
ACCEL_FS_SEL_8G == 16
ACCEL_FS_SEL_16G == 24

GYRO_FS_SEL_250DPS == 0
GYRO_FS_SEL_500DPS == 8
GYRO_FS_SEL_1000DPS == 16
GYRO_FS_SEL_2000DPS == 24

\* The sensitivity divisors, in tenths (16384 is 163840 tenths, 62.5 is 625).
_ACCEL_SO_2G == 163840
_ACCEL_SO_4G == 81920
_ACCEL_SO_8G == 40960
_ACCEL_SO_16G == 20480

_GYRO_SO_250DPS == 1310
_GYRO_SO_500DPS == 625
_GYRO_SO_1000DPS == 328
_GYRO_SO_2000DPS == 164

\* _TEMP_SO = 326.8, in tenths; _TEMP_OFFSET = 25.
_TEMP_SO == 3268
_TEMP_OFFSET == 25

WHOAMI_EXPECTED == 25    \* 0x19
PWR_RESET == 128         \* 0b10000000
PWR_CLKSEL_AUTO == 1     \* 0b00000001
RESET_SETTLE_MS == 100
CYCLE_BIT == 5
FIFO_MODE_BIT == 6
ACCEL_FIFO_EN == 3
FIFO_EN == 6
FIFO_RST == 2
bytes_per_sample == 8
FIFO_CAPACITY == 1024

\* The registers the device stores a written byte in.
ConfigRegs ==
    {_CONFIG, _GYRO_CONFIG, _ACCEL_CONFIG, REG_ACCEL_CONFIG2, REG_SMPLRT_DIV,
     _PWR_MGMT_1, _WHO_AM_I, REG_FIFO_EN, REG_USER_CTRL}

----------------------------------------------------------------------------
(* Integer, bit and byte arithmetic.                                       *)

RECURSIVE Pow2(_)
Pow2(k) == IF k = 0 THEN 1 ELSE 2 * Pow2(k - 1)

\* Python's x & y and x | y on bytes; ~m restricted to a byte is 255 - m.
RECURSIVE BitAnd(_, _)
BitAnd(x, y) ==
    IF x = 0 \/ y = 0 THEN 0
    ELSE (x % 2) * (y % 2) + 2 * BitAnd(x \div 2, y \div 2)

BitOr(x, y) == x + y - BitAnd(x, y)

Invert(m) == 255 - m

ClearBits(x, m) == BitAnd(x, Invert(m))

Abs(i) == IF i < 0 THEN -i ELSE i

RECURSIVE Gcd(_, _)
Gcd(a, b) == IF b = 0 THEN a ELSE Gcd(b, a % b)

\* A variant of unpack_h: the format ">H", which reads the pair unsigned.
unpack_h_unsigned(hi, lo) == hi * 256 + lo

\* struct.unpack(">h", ...): two bytes, high first, as a signed 16-bit value.
unpack_h(hi, lo) ==
    LET u == hi * 256 + lo
    IN  IF u >= 32768 THEN u - 65536 ELSE u

\* struct.unpack(">H", ...): two bytes, high first, unsigned.
unpack_H(hi, lo) == hi * 256 + lo

\* struct.unpack_from(">hhh", b, off): three signed 16-bit values from the
\* six bytes after offset off (0-based).
unpack_hhh(b, off) ==
    <<unpack_h(b[off + 1], b[off + 2]),
      unpack_h(b[off + 3], b[off + 4]),
      unpack_h(b[off + 5], b[off + 6])>>

\* struct.pack_into("<b", buf, 0, value) under MicroPython: the low byte of
\* the value, with no range check.
pack_b(value) == value % 256

\* What the device puts on the bus for a signed 16-bit output register pair.
DeviceWord(v) == <<(v % 65536) \div 256, (v % 65536) % 256>>

DeviceTriple(t) == DeviceWord(t[1]) \o DeviceWord(t[2]) \o DeviceWord(t[3])

----------------------------------------------------------------------------
(* Rationals <<num, den>>, den > 0, in lowest terms.                       *)

Rat(n, d) ==
    LET s == IF d < 0 THEN -1 ELSE 1
        g == Gcd(Abs(n), Abs(d))
    IN  <<(s * n) \div g, (s * d) \div g>>

RatZero == <<0, 1>>
RatAdd(p, q) == Rat(p[1] * q[2] + q[1] * p[2], p[2] * q[2])
RatSub(p, q) == Rat(p[1] * q[2] - q[1] * p[2], p[2] * q[2])
RatMul(p, q) == Rat(p[1] * q[1], p[2] * q[2])
RatDivInt(p, n) == Rat(p[1], p[2] * n)

\* value / so * sf, for a raw integer value and a divisor so in tenths.
Scale(value, so, sf) == RatMul(Rat(value * 10, so), sf)

ZeroTriple == <<RatZero, RatZero, RatZero>>

----------------------------------------------------------------------------
(* The I2C bus.  A call threads a record s through its transactions:       *)
(* s.regs the device registers, s.log the transactions so far, s.err the   *)
(* exception raised ("none" while the call runs on), s.failAt the number   *)
(* of the bus transaction the transport fails at (0: it never fails).      *)
(* Once an exception is raised nothing after it in the call takes place.   *)

StartFrom(r, l, f) == [regs |-> r, log |-> l, err |-> "none", failAt |-> f]

Start(f) == StartFrom(regs, <<>>, f)

IsBus(e) == e.k # "sleep"

NBus(l) == Len(SelectSeq(l, IsBus))

Raise(s, e) == IF s.err = "none" THEN [s EXCEPT !.err = e] ELSE s

\* A variant of Transfer: a transaction that fails is made once more.
Transfer_retried(s, kind, register, data) ==
    IF s.err # "none" THEN s
    ELSE LET done == [k |-> kind, reg |-> register, data |-> data, ok |-> TRUE]
             failed == [k |-> kind, reg |-> register, data |-> <<>>, ok |-> FALSE]
             stored == IF kind = "w" /\ register \in DOMAIN s.regs
                       THEN [s.regs EXCEPT ![register] = data[1]]
                       ELSE s.regs
         IN  IF NBus(s.log) + 1 = s.failAt
             THEN [s EXCEPT !.log = Append(Append(@, failed), done),
                            !.regs = stored]
             ELSE [s EXCEPT !.log = Append(@, done), !.regs = stored]

\* One transaction of the transport: it completes, or raises OSError and
\* leaves the device as it was.  A completed write stores its byte.
Transfer(s, kind, register, data) ==
    IF s.err # "none" THEN s
    ELSE IF NBus(s.log) + 1 = s.failAt
    THEN [s EXCEPT !.err = "OSError",
                   !.log = Append(@, [k |-> kind, reg |-> register,
                                      data |-> <<>>, ok |-> FALSE])]
    ELSE [s EXCEPT !.log = Append(@, [k |-> kind, reg |-> register,
                                      data |-> data, ok |-> TRUE]),
                   !.regs = IF kind = "w" /\ register \in DOMAIN s.regs
                            THEN [@ EXCEPT ![register] = data[1]]
                            ELSE @]

readfrom_mem_into(s, register, data) == Transfer(s, "r", register, data)

writeto_mem(s, register, data) == Transfer(s, "w", register, data)

sleep_ms(s, ms) ==
    IF s.err # "none" THEN s
    ELSE [s EXCEPT !.log = Append(@, [k |-> "sleep", reg |-> 0,
                                      data |-> <<ms>>, ok |-> TRUE])]

\* _register_char(register): read one byte; the value read is
\* s.regs[register].
_register_char_get(s, register) ==
    readfrom_mem_into(s, register, <<s.regs[register]>>)

\* _register_char(register, value): pack the value as one byte, write it.
_register_char_set(s, register, value) ==
    writeto_mem(s, register, <<pack_b(value)>>)

\* _register_three_shorts(register): read six bytes, unpack ">hhh".
_register_three_shorts(s, register, data) ==
    readfrom_mem_into(s, register, data)

\* _register_short(register): read two bytes, unpack ">h".
_register_short(s, register, data) ==
    readfrom_mem_into(s, register, data)

----------------------------------------------------------------------------
(* The configuration calls.                                                *)

\* The divisor _accel_fs returns; 0 stands for None (no branch taken).
AccelSo(value) ==
    IF ACCEL_FS_SEL_2G = value THEN _ACCEL_SO_2G
    ELSE IF ACCEL_FS_SEL_4G = value THEN _ACCEL_SO_4G
    ELSE IF ACCEL_FS_SEL_8G = value THEN _ACCEL_SO_8G
    ELSE IF ACCEL_FS_SEL_16G = value THEN _ACCEL_SO_16G
    ELSE 0

_accel_fs(s, value) == _register_char_set(s, _ACCEL_CONFIG, value)

\* A variant of GyroSo: the 500 and 1000 dps divisors exchanged.
GyroSo_exchanged(value) ==
    IF GYRO_FS_SEL_250DPS = value THEN _GYRO_SO_250DPS
    ELSE IF GYRO_FS_SEL_500DPS = value THEN _GYRO_SO_1000DPS
    ELSE IF GYRO_FS_SEL_1000DPS = value THEN _GYRO_SO_500DPS
    ELSE IF GYRO_FS_SEL_2000DPS = value THEN _GYRO_SO_2000DPS
    ELSE 0

\* The divisor _gyro_fs returns; 0 stands for None.
GyroSo(value) ==
    IF GYRO_FS_SEL_250DPS = value THEN _GYRO_SO_250DPS
    ELSE IF GYRO_FS_SEL_500DPS = value THEN _GYRO_SO_500DPS
    ELSE IF GYRO_FS_SEL_1000DPS = value THEN _GYRO_SO_1000DPS
    ELSE IF GYRO_FS_SEL_2000DPS = value THEN _GYRO_SO_2000DPS
    ELSE 0

_gyro_fs(s, value) == _register_char_set(s, _GYRO_CONFIG, value)

\* A variant of Whoami_check: the identity is read and not compared.
Whoami_check_uncompared(s0) == _register_char_get(s0, _WHO_AM_I)

\* __init__: the identity check, reset, settle, clock select and the two
\* full-scale writes.
Whoami_check(s0) ==
    LET s1 == _register_char_get(s0, _WHO_AM_I)
    IN  IF s1.err = "none" /\ WHOAMI_EXPECTED # s0.regs[_WHO_AM_I]
        THEN Raise(s1, "RuntimeError")
        ELSE s1

\* A variant of __init__: the clock is selected before the reset.
__init___clock_first(s0, accel_fs, gyro_fs) ==
    LET s1 == Whoami_check(s0)
        s2 == _register_char_set(s1, _PWR_MGMT_1, PWR_CLKSEL_AUTO)
        s3 == sleep_ms(s2, RESET_SETTLE_MS)
        s4 == _register_char_set(s3, _PWR_MGMT_1, PWR_RESET)
        s5 == _accel_fs(s4, accel_fs)
    IN  _gyro_fs(s5, gyro_fs)

__init__(s0, accel_fs, gyro_fs) ==
    LET s1 == Whoami_check(s0)
        s2 == _register_char_set(s1, _PWR_MGMT_1, PWR_RESET)
        s3 == sleep_ms(s2, RESET_SETTLE_MS)
        s4 == _register_char_set(s3, _PWR_MGMT_1, PWR_CLKSEL_AUTO)
        s5 == _accel_fs(s4, accel_fs)
    IN  _gyro_fs(s5, gyro_fs)

\* A variant of fifo_enable: with enable false the routing bit and the
\* FIFO enable bit are cleared.
fifo_enable_gated(s0, enable) ==
    LET s1 == _register_char_get(s0, _CONFIG)
        v1 == ClearBits(ClearBits(s0.regs[_CONFIG], Pow2(7)),
                        Pow2(FIFO_MODE_BIT))
        s2 == _register_char_set(s1, _CONFIG, v1)
        s3 == _register_char_get(s2, REG_FIFO_EN)
        v3 == IF enable
              THEN BitOr(s2.regs[REG_FIFO_EN], Pow2(ACCEL_FIFO_EN))
              ELSE ClearBits(s2.regs[REG_FIFO_EN], Pow2(ACCEL_FIFO_EN))
        s4 == _register_char_set(s3, REG_FIFO_EN, v3)
        s5 == _register_char_get(s4, REG_USER_CTRL)
        v5 == IF enable
              THEN BitOr(BitOr(s4.regs[REG_USER_CTRL], Pow2(FIFO_EN)),
                         Pow2(FIFO_RST))
              ELSE ClearBits(s4.regs[REG_USER_CTRL], Pow2(FIFO_EN))
    IN  _register_char_set(s5, REG_USER_CTRL, v5)

\* A variant of fifo_enable: the FIFO-mode bit is set (no new writes when
\* the FIFO is full) instead of cleared.
fifo_enable_hold_oldest(s0, enable) ==
    LET s1 == _register_char_get(s0, _CONFIG)
        v1 == BitOr(ClearBits(s0.regs[_CONFIG], Pow2(7)), Pow2(FIFO_MODE_BIT))
        s2 == _register_char_set(s1, _CONFIG, v1)
        s3 == _register_char_get(s2, REG_FIFO_EN)
        v3 == BitOr(s2.regs[REG_FIFO_EN], Pow2(ACCEL_FIFO_EN))
        s4 == _register_char_set(s3, REG_FIFO_EN, v3)
        s5 == _register_char_get(s4, REG_USER_CTRL)
        v5 == BitOr(BitOr(s4.regs[REG_USER_CTRL], Pow2(FIFO_EN)),
                    Pow2(FIFO_RST))
    IN  _register_char_set(s5, REG_USER_CTRL, v5)

\* fifo_enable(enable): the argument is not read.
fifo_enable(s0, enable) ==
    LET s1 == _register_char_get(s0, _CONFIG)
        v1 == ClearBits(ClearBits(s0.regs[_CONFIG], Pow2(7)),
                        Pow2(FIFO_MODE_BIT))
        s2 == _register_char_set(s1, _CONFIG, v1)
        s3 == _register_char_get(s2, REG_FIFO_EN)
        v3 == BitOr(s2.regs[REG_FIFO_EN], Pow2(ACCEL_FIFO_EN))
        s4 == _register_char_set(s3, REG_FIFO_EN, v3)
        s5 == _register_char_get(s4, REG_USER_CTRL)
        v5 == BitOr(BitOr(s4.regs[REG_USER_CTRL], Pow2(FIFO_EN)),
                    Pow2(FIFO_RST))
    IN  _register_char_set(s5, REG_USER_CTRL, v5)

\* A variant of samplerate_div: the divisors one row off.
samplerate_div_shifted ==
    (10 :> 19) @@ (50 :> 9) @@ (100 :> 4) @@ (200 :> 3) @@ (250 :> 99)

\* The dict samplerate_div of set_odr.
samplerate_div == (10 :> 99) @@ (50 :> 19) @@ (100 :> 9) @@ (200 :> 4) @@ (250 :> 3)

\* div = samplerate_div[odr]: a KeyError when odr is no key.
Lookup_div(s, odr) ==
    IF odr \in DOMAIN samplerate_div THEN s ELSE Raise(s, "KeyError")

\* A variant of set_odr: DLPF_CFG is cleared and not set to 1.
set_odr_filter_off(s0, odr) ==
    LET s1 == _register_char_get(s0, REG_PWR_MGMT_1)
        v1 == BitOr(s0.regs[REG_PWR_MGMT_1], Pow2(CYCLE_BIT))
        s2 == _register_char_set(s1, REG_PWR_MGMT_1, v1)
        s3 == _register_char_get(s2, REG_ACCEL_CONFIG2)
        v3 == BitOr(ClearBits(s2.regs[REG_ACCEL_CONFIG2], 63), 7)
        s4 == _register_char_set(s3, REG_ACCEL_CONFIG2, v3)
        s5 == Lookup_div(s4, odr)
        s6 == IF s5.err = "none"
              THEN _register_char_set(s5, REG_SMPLRT_DIV, samplerate_div[odr])
              ELSE s5
        s7 == _register_char_get(s6, REG_GYRO_CONFIG)
        v7 == ClearBits(s6.regs[REG_GYRO_CONFIG], 3)
        s8 == _register_char_set(s7, REG_GYRO_CONFIG, v7)
        s9 == _register_char_get(s8, _CONFIG)
        v9 == ClearBits(ClearBits(s8.regs[_CONFIG], Pow2(7)), 7)
    IN  _register_char_set(s9, _CONFIG, v9)

\* A variant of set_odr: the CONFIG filter write made before the divisor
\* write.
set_odr_filter_first(s0, odr) ==
    LET s1 == _register_char_get(s0, REG_PWR_MGMT_1)
        v1 == BitOr(s0.regs[REG_PWR_MGMT_1], Pow2(CYCLE_BIT))
        s2 == _register_char_set(s1, REG_PWR_MGMT_1, v1)
        s3 == _register_char_get(s2, REG_ACCEL_CONFIG2)
        v3 == BitOr(ClearBits(s2.regs[REG_ACCEL_CONFIG2], 63), 7)
        s4 == _register_char_set(s3, REG_ACCEL_CONFIG2, v3)
        s5 == Lookup_div(s4, odr)
        s6 == _register_char_get(s5, _CONFIG)
        v6 == BitOr(ClearBits(ClearBits(s5.regs[_CONFIG], Pow2(7)), 7), 1)
        s7 == _register_char_set(s6, _CONFIG, v6)
        s8 == IF s7.err = "none"
              THEN _register_char_set(s7, REG_SMPLRT_DIV, samplerate_div[odr])
              ELSE s7
        s9 == _register_char_get(s8, REG_GYRO_CONFIG)
        v9 == ClearBits(s8.regs[REG_GYRO_CONFIG], 3)
    IN  _register_char_set(s9, REG_GYRO_CONFIG, v9)

set_odr(s0, odr) ==
    LET s1 == _register_char_get(s0, REG_PWR_MGMT_1)
        v1 == BitOr(s0.regs[REG_PWR_MGMT_1], Pow2(CYCLE_BIT))
        s2 == _register_char_set(s1, REG_PWR_MGMT_1, v1)
        s3 == _register_char_get(s2, REG_ACCEL_CONFIG2)
        v3 == BitOr(ClearBits(s2.regs[REG_ACCEL_CONFIG2], 63), 7)
        s4 == _register_char_set(s3, REG_ACCEL_CONFIG2, v3)
        s5 == Lookup_div(s4, odr)
        s6 == IF s5.err = "none"
              THEN _register_char_set(s5, REG_SMPLRT_DIV, samplerate_div[odr])
              ELSE s5
        s7 == _register_char_get(s6, REG_GYRO_CONFIG)
        v7 == ClearBits(s6.regs[REG_GYRO_CONFIG], 3)
        s8 == _register_char_set(s7, REG_GYRO_CONFIG, v7)
        s9 == _register_char_get(s8, _CONFIG)
        v9 == BitOr(ClearBits(ClearBits(s8.regs[_CONFIG], Pow2(7)), 7), 1)
    IN  _register_char_set(s9, _CONFIG, v9)

----------------------------------------------------------------------------
(* The reads.                                                              *)

\* The acceleration property: three shorts from _ACCEL_XOUT_H, each
\* value / so * sf.
acceleration(data) ==
    [i \in 1..3 |-> Scale(unpack_hhh(data, 0)[i], accel_so, accel_sf)]

\* The gyro property: three shorts from _GYRO_XOUT_H, each value / so * sf,
\* less the offset of its axis.
gyro(data, offset) ==
    [i \in 1..3 |->
        RatSub(Scale(unpack_hhh(data, 0)[i], gyro_so, gyro_sf), offset[i])]

\* The temperature property: temp / _TEMP_SO + _TEMP_OFFSET.
temperature(data) ==
    RatAdd(Rat(unpack_h(data[1], data[2]) * 10, _TEMP_SO), Rat(_TEMP_OFFSET, 1))

\* A variant of fifo_count: the division rounds up.
fifo_count_ceil(data) ==
    (unpack_H(data[1], data[2]) + bytes_per_sample - 1) \div bytes_per_sample

\* get_fifo_count: two bytes from REG_FIFO_COUNTH, unpacked ">H", floor
\* divided by the record size.
fifo_count(data) == unpack_H(data[1], data[2]) \div bytes_per_sample

\* The two bytes the device holds in FIFO_COUNTH, FIFO_COUNTL for a count.
DeviceCount(b) == <<b \div 256, b % 256>>

\* A variant of read_samples_into: the capacity is not checked.
read_samples_into_uncapped(s, n_bytes, data) ==
    IF (n_bytes % bytes_per_sample) # 0
    THEN Raise(s, "ValueError: Buffer should be a multiple of 6")
    ELSE readfrom_mem_into(s, REG_FIFO_R_W, data)

\* read_samples_into(buf): the two length checks, then one bulk read of
\* len(buf) bytes from the FIFO data port.
read_samples_into(s, n_bytes, data) ==
    IF (n_bytes % bytes_per_sample) # 0
    THEN Raise(s, "ValueError: Buffer should be a multiple of 6")
    ELSE IF n_bytes > FIFO_CAPACITY
    THEN Raise(s, "ValueError: Requested samples exceeds FIFO capacity")
    ELSE readfrom_mem_into(s, REG_FIFO_R_W, data)

\* The n bytes the FIFO data port delivers: the records of pattern, over
\* and over.
FifoData(n, pattern) ==
    [i \in 1..n |-> pattern[((i - 1) % Len(pattern)) + 1]]

\* A bytearray(n).
Zeros(n) == [i \in 1..n |-> 0]

\* A variant of deinterleave_ok: arrays longer than the sample count pass.
deinterleave_ok_atleast(b, x, y, z) ==
    /\ (Len(b) % bytes_per_sample) = 0
    /\ Len(x) >= Len(b) \div bytes_per_sample
    /\ Len(y) >= Len(b) \div bytes_per_sample
    /\ Len(z) >= Len(b) \div bytes_per_sample

\* deinterleave_samples: the four asserts.
deinterleave_ok(b, x, y, z) ==
    /\ (Len(b) % bytes_per_sample) = 0
    /\ Len(x) = Len(b) \div bytes_per_sample
    /\ Len(y) = Len(b) \div bytes_per_sample
    /\ Len(z) = Len(b) \div bytes_per_sample

\* deinterleave_samples: the loop, passes i..samples-1 over the three
\* arrays out = <<xs, ys, zs>>.
RECURSIVE deinterleave_loop(_, _, _)
deinterleave_loop(b, out, i) ==
    IF i >= Len(b) \div bytes_per_sample THEN out
    ELSE LET xyz == unpack_hhh(b, i * bytes_per_sample)
         IN  deinterleave_loop(b,
                 <<[out[1] EXCEPT ![i + 1] = xyz[1]],
                   [out[2] EXCEPT ![i + 1] = xyz[2]],
                   [out[3] EXCEPT ![i + 1] = xyz[3]]>>,
                 i + 1)

deinterleave_samples(b, x, y, z) ==
    IF deinterleave_ok(b, x, y, z)
    THEN [err |-> "none", out |-> deinterleave_loop(b, <<x, y, z>>, 0)]
    ELSE [err |-> "AssertionError", out |-> <<x, y, z>>]

----------------------------------------------------------------------------
(* Bounds and inputs.                                                      *)

MaxFaults == 1      \* transport failures in one run, at most
MaxCount == 4       \* calibrate's count, at most
MaxOverrun == 2     \* passes explored below zero for a negative count
MaxRecords == 3     \* records in a decoded buffer, at most
MaxExtraLen == 16   \* buffer lengths explored past the FIFO capacity
MaxFifoRecords == 12  \* records the device is followed putting into the FIFO
MaxBulkReads == 2   \* bulk reads of the polling loop, at most

\* Where the transport may fail in a call of at most n transactions: at
\* none (0), or at any one of them while failures are left.
FailPoints(n) == {0} \cup (IF faults < MaxFaults THEN 1..n ELSE {})

\* The bus transactions a call makes at most.
INIT_TRANSFERS == 5
SET_ODR_TRANSFERS == 9
FIFO_ENABLE_TRANSFERS == 6

\* The unit factors SF_G, SF_M_S2, SF_DEG_S (a name may not begin SF_ here).
Sf_G == <<1, 1>>
Sf_M_S2 == <<196133, 20000>>    \* 9.80665
Sf_DEG_S == <<1, 1>>
Sf_HALF == <<1, 2>>             \* a caller's own factor

AccelSelectors ==
    {ACCEL_FS_SEL_2G, ACCEL_FS_SEL_4G, ACCEL_FS_SEL_8G, ACCEL_FS_SEL_16G}
GyroSelectors ==
    {GYRO_FS_SEL_250DPS, GYRO_FS_SEL_500DPS, GYRO_FS_SEL_1000DPS,
     GYRO_FS_SEL_2000DPS}

\* accel_sf, gyro_sf, gyro_offset as a caller passes them.
UnitChoices == {<<Sf_M_S2, Sf_DEG_S, ZeroTriple>>}
AllSelectors == AccelSelectors \X GyroSelectors

WhoChoices == {WHOAMI_EXPECTED, 104}   \* 0x19; 0x68, another part's identity
FillBytes == {0, 255}                  \* what the registers hold at power-on
OdrChoices == DOMAIN samplerate_div \cup {20, 99}
AccelSamples == {<<0, 0, 16384>>, <<100, -50, 1000>>}
GyroSamples == {<<0, 0, 0>>, <<262, 0, 0>>, <<524, 0, 0>>, <<-131, 393, 655>>}
TempSamples == {3268, -1}

\* The records the FIFO delivers: X, Y, Z, temperature, high byte first.
FifoRecords ==
    {<<0, 100, 255, 206, 3, 232, 0, 0>>,       \* 100, -50, 1000, temp 0
     <<0, 100, 255, 206, 3, 232, 18, 52>>,     \* the same, temp 0x1234
     <<128, 0, 127, 255, 255, 255, 11, 184>>,  \* -32768, 32767, -1
     <<0, 1, 1, 0, 0, 128, 255, 255>>}         \* 1, 256, 128

NoCall == [op |-> "none", arg |-> <<>>, result |-> "none", ret |-> <<>>]
\* calibrate's frame: count, n, the sums o, delay, where the transport
\* fails, and (kept for the record only) the offset stored when it was called.
NoCal ==
    [count |-> 0, n |-> 0, o |-> ZeroTriple, delay |-> 0, failAt |-> 0,
     before |-> ZeroTriple]

\* No polling loop running; no thread inside _register_three_shorts.
NoMain == [pc |-> "none", count |-> 0, samples_read |-> 0]
NoRead == [pc |-> "idle", register |-> 0, delivered |-> <<>>, ret |-> <<>>]
NoReaders == [t \in {1, 2} |-> NoRead]

Result(s) == IF s.err = "none" THEN "ok" ELSE s.err

\* A call that ran as s: what it leaves on the device, in the log, and what
\* the caller gets (ret when it returned, the exception otherwise).
Ends(op, arg, s, ret) ==
    /\ regs' = s.regs
    /\ fifo_bytes' = fifo_bytes
    /\ log' = s.log
    /\ call' = [op |-> op, arg |-> arg, result |-> Result(s),
                ret |-> IF s.err = "none" THEN ret ELSE <<>>]
    /\ faults' = IF s.err = "OSError" THEN faults + 1 ELSE faults

----------------------------------------------------------------------------
(* The actions: one per call of the driver's interface.                    *)

\* MPU6886(i2c, accel_fs=, gyro_fs=, accel_sf=, gyro_sf=, gyro_offset=), the
\* two selectors a pair of selectors.
Construct(selectors) ==
    /\ pc = "idle" /\ ~constructed
    /\ \E fs \in selectors, u \in UnitChoices,
          f \in FailPoints(INIT_TRANSFERS) :
          LET accel_fs == fs[1]
              gyro_fs == fs[2]
              s == __init__(Start(f), accel_fs, gyro_fs)
          IN  /\ Ends("__init__", <<accel_fs, gyro_fs>>, s, <<>>)
              /\ IF s.err = "none"
                 THEN /\ constructed' = TRUE
                      /\ accel_so' = AccelSo(accel_fs)
                      /\ gyro_so' = GyroSo(gyro_fs)
                      /\ accel_sf' = u[1]
                      /\ gyro_sf' = u[2]
                      /\ gyro_offset' = u[3]
                 ELSE UNCHANGED <<drvVars, gyro_offset>>
    /\ buf' = <<>>
    /\ UNCHANGED <<appVars, pc, cal, xs, ys, zs>>

SetOdr(rates) ==
    /\ pc = "idle" /\ constructed
    /\ \E odr \in rates, f \in FailPoints(SET_ODR_TRANSFERS) :
          Ends("set_odr", <<odr>>, set_odr(Start(f), odr), <<>>)
    /\ buf' = <<>>
    /\ UNCHANGED <<appVars, drvVars, gyro_offset, pc, cal, xs, ys, zs>>

FifoEnable ==
    /\ pc = "idle" /\ constructed
    /\ \E enable \in BOOLEAN, f \in FailPoints(FIFO_ENABLE_TRANSFERS) :
          Ends("fifo_enable", <<enable>>, fifo_enable(Start(f), enable), <<>>)
    /\ buf' = <<>>
    /\ UNCHANGED <<appVars, drvVars, gyro_offset, pc, cal, xs, ys, zs>>

Whoami ==
    /\ pc = "idle" /\ constructed
    /\ \E f \in FailPoints(1) :
          Ends("whoami", <<>>, _register_char_get(Start(f), _WHO_AM_I),
               regs[_WHO_AM_I])
    /\ buf' = <<>>
    /\ UNCHANGED <<appVars, drvVars, gyro_offset, pc, cal, xs, ys, zs>>

ReadAcceleration ==
    /\ pc = "idle" /\ constructed
    /\ \E raw \in AccelSamples, f \in FailPoints(1) :
          LET data == DeviceTriple(raw)
          IN  Ends("acceleration", <<>>,
                   _register_three_shorts(Start(f), _ACCEL_XOUT_H, data),
                   acceleration(data))
    /\ buf' = <<>>
    /\ UNCHANGED <<appVars, drvVars, gyro_offset, pc, cal, xs, ys, zs>>

ReadGyro ==
    /\ pc = "idle" /\ constructed
    /\ \E raw \in GyroSamples, f \in FailPoints(1) :
          LET data == DeviceTriple(raw)
          IN  Ends("gyro", <<>>,
                   _register_three_shorts(Start(f), _GYRO_XOUT_H, data),
                   gyro(data, gyro_offset))
    /\ buf' = <<>>
    /\ UNCHANGED <<appVars, drvVars, gyro_offset, pc, cal, xs, ys, zs>>

ReadTemperature ==
    /\ pc = "idle" /\ constructed
    /\ \E raw \in TempSamples, f \in FailPoints(1) :
          LET data == DeviceWord(raw)
          IN  Ends("temperature", <<>>,
                   _register_short(Start(f), _TEMP_OUT_H, data),
                   temperature(data))
    /\ buf' = <<>>
    /\ UNCHANGED <<appVars, drvVars, gyro_offset, pc, cal, xs, ys, zs>>

\* get_fifo_count.
GetFifoCount ==
    /\ pc = "idle" /\ constructed
    /\ \E f \in FailPoints(1) :
          LET data == DeviceCount(fifo_bytes)
          IN  Ends("get_fifo_count", <<>>,
                   readfrom_mem_into(Start(f), REG_FIFO_COUNTH, data),
                   fifo_count(data))
    /\ buf' = <<>>
    /\ UNCHANGED <<appVars, drvVars, gyro_offset, pc, cal, xs, ys, zs>>

\* read_samples_into(b), b among bufs, the FIFO delivering one of records.
\* A call that raises leaves the buffer as it was passed.
ReadSamplesInto(bufs, records) ==
    /\ pc = "idle" /\ constructed
    /\ \E b \in bufs, r \in records, f \in FailPoints(1) :
          LET data == FifoData(Len(b), r)
              s == read_samples_into(Start(f), Len(b), data)
          IN  /\ Ends("read_samples_into", <<Len(b)>>, s, <<>>)
              /\ buf' = IF s.err = "none" THEN data ELSE b
    /\ UNCHANGED <<appVars, drvVars, gyro_offset, pc, cal, xs, ys, zs>>

\* deinterleave_samples(buf, xs, ys, zs) on the caller's buffer and arrays.
Deinterleave ==
    /\ pc = "idle" /\ constructed
    /\ LET d == deinterleave_samples(buf, xs, ys, zs)
       IN  /\ xs' = d.out[1]
           /\ ys' = d.out[2]
           /\ zs' = d.out[3]
           /\ call' = [op |-> "deinterleave_samples", arg |-> <<>>,
                       result |-> IF d.err = "none" THEN "ok" ELSE d.err,
                       ret |-> <<>>]
    /\ log' = <<>>
    /\ UNCHANGED <<appVars, regs, fifo_bytes, drvVars, gyro_offset, pc, cal, buf,
                   faults>>

----------------------------------------------------------------------------
(* calibrate(count, delay): its entry, one pass of its loop, its exit.     *)

\* A variant of CalibrateBegin: the stored offset is not reset.
CalibrateBegin_keeps_offset(counts, delays) ==
    /\ pc = "idle" /\ constructed
    /\ \E count \in counts, delay \in delays :
       \E f \in FailPoints(IF count > 0 THEN count ELSE MaxOverrun) :
          /\ cal' = [count |-> count, n |-> count, o |-> ZeroTriple,
                     delay |-> delay, failAt |-> f, before |-> gyro_offset]
          /\ call' = [op |-> "calibrate", arg |-> <<count, delay>>,
                      result |-> "running", ret |-> <<>>]
    /\ log' = <<>>
    /\ pc' = "calibrate"
    /\ buf' = <<>>
    /\ UNCHANGED <<appVars, regs, fifo_bytes, drvVars, gyro_offset, xs, ys, zs,
                   faults>>

\* Lines 142-144: the sums and the stored offset start at zero.
CalibrateBegin(counts, delays) ==
    /\ pc = "idle" /\ constructed
    /\ \E count \in counts, delay \in delays :
       \E f \in FailPoints(IF count > 0 THEN count ELSE MaxOverrun) :
          /\ cal' = [count |-> count, n |-> count, o |-> ZeroTriple,
                     delay |-> delay, failAt |-> f, before |-> gyro_offset]
          /\ call' = [op |-> "calibrate", arg |-> <<count, delay>>,
                      result |-> "running", ret |-> <<>>]
    /\ gyro_offset' = ZeroTriple
    /\ log' = <<>>
    /\ pc' = "calibrate"
    /\ buf' = <<>>
    /\ UNCHANGED <<appVars, regs, fifo_bytes, drvVars, xs, ys, zs, faults>>

\* One pass of `while count:`: sleep, read the gyro, add, count down.  A
\* negative count never reaches zero; MaxOverrun passes of it are explored.
CalibrateStep ==
    /\ pc = "calibrate"
    /\ cal.count # 0 /\ cal.count > -(1 + MaxOverrun)
    /\ \E raw \in GyroSamples :
          LET data == DeviceTriple(raw)
              s0 == StartFrom(regs, log, cal.failAt)
              s == _register_three_shorts(sleep_ms(s0, cal.delay),
                                          _GYRO_XOUT_H, data)
              g == gyro(data, gyro_offset)
          IN  /\ log' = s.log
              /\ faults' = IF s.err = "OSError" THEN faults + 1 ELSE faults
              /\ IF s.err = "none"
                 THEN /\ cal' = [cal EXCEPT
                                   !.o = [i \in 1..3 |-> RatAdd(cal.o[i], g[i])],
                                   !.count = cal.count - 1]
                      /\ UNCHANGED <<pc, call>>
                 ELSE /\ pc' = "idle"
                      /\ call' = [call EXCEPT !.result = s.err]
                      /\ cal' = NoCal
    /\ UNCHANGED <<appVars, regs, fifo_bytes, drvVars, gyro_offset, bufVars>>

\* Lines 154-155: the sums over n = float(count); n = 0.0 raises
\* ZeroDivisionError at the first division.
CalibrateEnd ==
    /\ pc = "calibrate"
    /\ cal.count = 0
    /\ IF cal.n = 0
       THEN /\ call' = [call EXCEPT !.result = "ZeroDivisionError"]
            /\ UNCHANGED gyro_offset
       ELSE /\ gyro_offset' = [i \in 1..3 |-> RatDivInt(cal.o[i], cal.n)]
            /\ call' = [call EXCEPT !.result = "ok", !.ret = gyro_offset']
    /\ pc' = "idle"
    /\ cal' = NoCal
    /\ UNCHANGED <<appVars, regs, fifo_bytes, drvVars, log, bufVars, faults>>

----------------------------------------------------------------------------
(* The polling loop of the examples (main): poll the count, and when it    *)
(* has reached the threshold read a chunk, count it, poll again, decode.   *)
(* An exception of a driver call is not caught: it ends the loop.          *)

threshold == 10

\* The device, routed to the FIFO by fifo_enable, puts one record into it.
DeviceSample ==
    /\ main.pc \notin {"none", "raised"}
    /\ fifo_bytes + bytes_per_sample <= MaxFifoRecords * bytes_per_sample
    /\ fifo_bytes' = fifo_bytes + bytes_per_sample
    /\ UNCHANGED <<regs, drvVars, gyro_offset, call, log, pc, cal, bufVars,
                   faults, appVars>>

\* A variant of MainPoll: the chunk is read whatever the count.
MainPoll_unchecked ==
    /\ main.pc = "poll"
    /\ \E f \in FailPoints(1) :
          LET data == DeviceCount(fifo_bytes)
              s == readfrom_mem_into(Start(f), REG_FIFO_COUNTH, data)
              count == fifo_count(data)
          IN  /\ Ends("get_fifo_count", <<>>, s, count)
              /\ main' = IF s.err # "none"
                          THEN [main EXCEPT !.pc = "raised"]
                          ELSE [main EXCEPT !.count = count, !.pc = "read"]
    /\ UNCHANGED <<drvVars, gyro_offset, pc, cal, bufVars, readers>>

\* count = mpu.get_fifo_count(); if count >= threshold:
MainPoll ==
    /\ main.pc = "poll"
    /\ \E f \in FailPoints(1) :
          LET data == DeviceCount(fifo_bytes)
              s == readfrom_mem_into(Start(f), REG_FIFO_COUNTH, data)
              count == fifo_count(data)
          IN  /\ Ends("get_fifo_count", <<>>, s, count)
              /\ main' = IF s.err # "none"
                          THEN [main EXCEPT !.pc = "raised"]
                          ELSE [main EXCEPT
                                  !.count = count,
                                  !.pc = IF count >= threshold
                                         THEN "read" ELSE "sleep"]
    /\ UNCHANGED <<drvVars, gyro_offset, pc, cal, bufVars, readers>>

\* mpu.read_samples_into(chunk); samples_read += threshold.  The device
\* delivers Len(chunk) bytes from the FIFO, which holds that many fewer.
MainRead ==
    /\ main.pc = "read"
    /\ main.samples_read < MaxBulkReads * threshold
    /\ \E r \in FifoRecords, f \in FailPoints(1) :
          LET data == FifoData(Len(buf), r)
              s == read_samples_into(Start(f), Len(buf), data)
          IN  /\ regs' = s.regs
              /\ log' = s.log
              /\ call' = [op |-> "read_samples_into", arg |-> <<Len(buf)>>,
                          result |-> Result(s), ret |-> <<>>]
              /\ faults' = IF s.err = "OSError" THEN faults + 1 ELSE faults
              /\ IF s.err = "none"
                 THEN /\ buf' = data
                      /\ fifo_bytes' = IF fifo_bytes >= Len(buf)
                                       THEN fifo_bytes - Len(buf) ELSE 0
                      /\ main' = [main EXCEPT !.samples_read = @ + threshold,
                                              !.pc = "after"]
                 ELSE /\ UNCHANGED <<buf, fifo_bytes>>
                      /\ main' = [main EXCEPT !.pc = "raised"]
    /\ UNCHANGED <<drvVars, gyro_offset, pc, cal, xs, ys, zs, readers>>

\* after = mpu.get_fifo_count()
MainAfter ==
    /\ main.pc = "after"
    /\ \E f \in FailPoints(1) :
          LET data == DeviceCount(fifo_bytes)
              s == readfrom_mem_into(Start(f), REG_FIFO_COUNTH, data)
          IN  /\ Ends("get_fifo_count", <<>>, s, fifo_count(data))
              /\ main' = [main EXCEPT
                            !.pc = IF s.err # "none" THEN "raised" ELSE "decode"]
    /\ UNCHANGED <<drvVars, gyro_offset, pc, cal, bufVars, readers>>

\* deinterleave_samples(chunk, x_values, y_values, z_values)
MainDecode ==
    /\ main.pc = "decode"
    /\ LET d == deinterleave_samples(buf, xs, ys, zs)
       IN  /\ xs' = d.out[1]
           /\ ys' = d.out[2]
           /\ zs' = d.out[3]
           /\ call' = [op |-> "deinterleave_samples", arg |-> <<>>,
                       result |-> IF d.err = "none" THEN "ok" ELSE d.err,
                       ret |-> <<>>]
           /\ main' = [main EXCEPT
                         !.pc = IF d.err = "none" THEN "sleep" ELSE "raised"]
    /\ log' = <<>>
    /\ UNCHANGED <<regs, fifo_bytes, drvVars, gyro_offset, pc, cal, buf, faults,
                   readers>>

\* time.sleep_ms(1), and round again.
MainSleep ==
    /\ main.pc = "sleep"
    /\ main' = [main EXCEPT !.pc = "poll"]
    /\ UNCHANGED <<regs, fifo_bytes, drvVars, gyro_offset, call, log, pc, cal,
                   bufVars, faults, readers>>

----------------------------------------------------------------------------
(* _register_three_shorts called on two threads.  Its buffer is the        *)
(* bytearray(6) made once, when the method was defined, and passed to      *)
(* every call of every instance that names no buffer of its own: here it   *)
(* is buf.  A call is two steps, the bus read into the buffer and the      *)
(* unpack of the buffer, and the other thread may run between them.        *)

\* self.i2c.readfrom_mem_into(self.address, register, buf)
ReaderFill(t) ==
    /\ pc = "idle" /\ constructed
    /\ readers[t].pc = "idle"
    /\ \E register \in {_ACCEL_XOUT_H, _GYRO_XOUT_H}, raw \in GyroSamples,
          f \in FailPoints(1) :
          LET data == DeviceTriple(raw)
              s == _register_three_shorts(Start(f), register, data)
          IN  /\ Ends("_register_three_shorts", <<t, register>>, s, <<>>)
              /\ IF s.err = "none"
                 THEN /\ buf' = data
                      /\ readers' = [readers EXCEPT
                                       ![t] = [pc |-> "filled",
                                               register |-> register,
                                               delivered |-> data,
                                               ret |-> <<>>]]
                 ELSE UNCHANGED <<buf, readers>>
    /\ UNCHANGED <<drvVars, gyro_offset, pc, cal, xs, ys, zs, main>>

\* return struct.unpack(">hhh", buf)
ReaderUnpack(t) ==
    /\ readers[t].pc = "filled"
    /\ readers' = [readers EXCEPT ![t].pc = "done",
                                  ![t].ret = unpack_hhh(buf, 0)]
    /\ UNCHANGED <<regs, fifo_bytes, drvVars, gyro_offset, call, log, pc, cal,
                   bufVars, faults, main>>

\* The caller has its triple; the thread is free for its next call.
ReaderDone(t) ==
    /\ readers[t].pc = "done"
    /\ readers' = [readers EXCEPT ![t] = NoRead]
    /\ UNCHANGED <<regs, fifo_bytes, drvVars, gyro_offset, call, log, pc, cal,
                   bufVars, faults, main>>

----------------------------------------------------------------------------
(* The driver on a bus: construction, configuration, reads, calibration.   *)

\* The device at power-on: its identity, and fill in every other register.
PowerOn(who, fill) ==
    [r \in ConfigRegs |-> IF r = _WHO_AM_I THEN who ELSE fill]

Init ==
    /\ \E who \in WhoChoices, fill \in FillBytes : regs = PowerOn(who, fill)
    /\ fifo_bytes = 15
    /\ constructed = FALSE
    /\ accel_so = 0 /\ gyro_so = 0
    /\ accel_sf = Sf_G /\ gyro_sf = Sf_G
    /\ gyro_offset = ZeroTriple
    /\ call = NoCall
    /\ log = <<>>
    /\ pc = "idle"
    /\ cal = NoCal
    /\ buf = <<>> /\ xs = <<>> /\ ys = <<>> /\ zs = <<>>
    /\ faults = 0
    /\ main = NoMain /\ readers = NoReaders

Next ==
    \/ Construct({<<ACCEL_FS_SEL_2G, GYRO_FS_SEL_250DPS>>,
                  <<ACCEL_FS_SEL_16G, GYRO_FS_SEL_2000DPS>>})
    \/ SetOdr(OdrChoices)
    \/ FifoEnable
    \/ Whoami
    \/ ReadAcceleration
    \/ ReadGyro
    \/ ReadTemperature
    \/ GetFifoCount
    \/ ReadSamplesInto({Zeros(8), Zeros(12)}, {<<0, 100, 255, 206, 3, 232, 18, 52>>})
    \/ CalibrateBegin({0, 1}, {0})
    \/ CalibrateStep
    \/ CalibrateEnd

Spec == Init /\ [][Next]_vars

----------------------------------------------------------------------------
(* The same driver with every pair of full-scale selectors.                *)

NextScale ==
    \/ Construct(AllSelectors)
    \/ SetOdr({10, 20})
    \/ FifoEnable
    \/ ReadAcceleration
    \/ ReadGyro
    \/ CalibrateBegin({1}, {0})
    \/ CalibrateStep
    \/ CalibrateEnd

SpecScale == Init /\ [][NextScale]_vars

----------------------------------------------------------------------------
(* A driver just constructed, as the start of the runs below: the device   *)
(* powered on with fill, the constructor called with the selectors fs and  *)
(* the units u over a transport that did not fail.                         *)

Constructed(fill, fs, u) ==
    LET s == __init__(StartFrom(PowerOn(WHOAMI_EXPECTED, fill), <<>>, 0),
                      fs[1], fs[2])
    IN  /\ regs = s.regs
        /\ log = s.log
        /\ call = [op |-> "__init__", arg |-> <<fs[1], fs[2]>>,
                   result |-> "ok", ret |-> <<>>]
        /\ constructed = TRUE
        /\ accel_so = AccelSo(fs[1]) /\ gyro_so = GyroSo(fs[2])
        /\ accel_sf = u[1] /\ gyro_sf = u[2] /\ gyro_offset = u[3]
        /\ pc = "idle"
        /\ cal = NoCal
        /\ faults = 0
        /\ main = NoMain /\ readers = NoReaders

----------------------------------------------------------------------------
(* Calibration: calibrate with every count up to MaxCount, and a negative  *)
(* one, between gyro reads.                                                *)

CalUnits ==
    {<<Sf_M_S2, Sf_DEG_S, ZeroTriple>>,
     <<Sf_G, Sf_HALF, <<Rat(1, 1), RatZero, Rat(-1, 2)>>>>}

InitCal ==
    /\ \E c \in {<<GYRO_FS_SEL_250DPS, 1>>, <<GYRO_FS_SEL_500DPS, 2>>} :
          \E u \in CalUnits :
             /\ u[2] = (IF c[2] = 1 THEN Sf_DEG_S ELSE Sf_HALF)
             /\ Constructed(0, <<ACCEL_FS_SEL_2G, c[1]>>, u)
    /\ fifo_bytes = 0
    /\ buf = <<>> /\ xs = <<>> /\ ys = <<>> /\ zs = <<>>

NextCal ==
    \/ CalibrateBegin(-1..MaxCount, {10})
    \/ CalibrateStep
    \/ CalibrateEnd
    \/ ReadGyro

SpecCal == InitCal /\ [][NextCal]_vars

----------------------------------------------------------------------------
(* The FIFO: every byte count the count registers can hold up to the       *)
(* capacity, and buffers of every length up to past the capacity.          *)

InitFifo ==
    /\ Constructed(0, <<ACCEL_FS_SEL_2G, GYRO_FS_SEL_250DPS>>,
                   <<Sf_M_S2, Sf_DEG_S, ZeroTriple>>)
    /\ \/ fifo_bytes \in 0..FIFO_CAPACITY /\ buf = Zeros(bytes_per_sample)
       \/ fifo_bytes = 0 /\ \E n \in 0..(FIFO_CAPACITY + MaxExtraLen) : buf = Zeros(n)
    /\ xs = <<>> /\ ys = <<>> /\ zs = <<>>

NextFifo ==
    \/ GetFifoCount
    \/ ReadSamplesInto({buf}, FifoRecords)

SpecFifo == InitFifo /\ [][NextFifo]_vars

----------------------------------------------------------------------------
(* The decoder: buffers of up to MaxRecords records, whole or cut short,   *)
(* and output arrays of every length up to MaxRecords.                     *)

RECURSIVE RecordSeqs(_)
RecordSeqs(n) ==
    IF n = 0 THEN {<<>>}
    ELSE {b \o r : b \in RecordSeqs(n - 1), r \in FifoRecords}

DecodeBufs ==
    LET whole == UNION {RecordSeqs(n) : n \in 0..MaxRecords}
    IN  whole \cup {b \o <<1, 2, 3, 4>> : b \in UNION {RecordSeqs(n) : n \in 0..1}}

\* An array.array('h') of n elements, each 7.
Filled(n) == [i \in 1..n |-> 7]

InitDecode ==
    /\ Constructed(0, <<ACCEL_FS_SEL_2G, GYRO_FS_SEL_250DPS>>,
                   <<Sf_M_S2, Sf_DEG_S, ZeroTriple>>)
    /\ fifo_bytes = 0
    /\ buf \in DecodeBufs
    /\ \E nx \in 0..MaxRecords, ny \in 0..MaxRecords, nz \in 0..MaxRecords :
          xs = Filled(nx) /\ ys = Filled(ny) /\ zs = Filled(nz)

NextDecode == Deinterleave

SpecDecode == InitDecode /\ [][NextDecode]_vars

----------------------------------------------------------------------------
(* Configuration: set_odr and fifo_enable on a driver constructed over a   *)
(* device whose CONFIG register, which the constructor leaves alone, holds *)
(* any byte.                                                               *)

ConfigBytes == 0..255

InitConfig ==
    /\ \E c \in ConfigBytes, fs \in {<<ACCEL_FS_SEL_2G, GYRO_FS_SEL_250DPS>>,
                                      <<ACCEL_FS_SEL_16G, GYRO_FS_SEL_2000DPS>>} :
          LET r0 == [PowerOn(WHOAMI_EXPECTED, 0) EXCEPT ![_CONFIG] = c]
              s == __init__(StartFrom(r0, <<>>, 0), fs[1], fs[2])
          IN  /\ regs = s.regs
              /\ log = s.log
              /\ call = [op |-> "__init__", arg |-> <<fs[1], fs[2]>>,
                         result |-> "ok", ret |-> <<>>]
              /\ accel_so = AccelSo(fs[1]) /\ gyro_so = GyroSo(fs[2])
    /\ constructed = TRUE
    /\ accel_sf = Sf_M_S2 /\ gyro_sf = Sf_DEG_S /\ gyro_offset = ZeroTriple
    /\ pc = "idle"
    /\ cal = NoCal
    /\ faults = 0
    /\ fifo_bytes = 0
    /\ buf = <<>> /\ xs = <<>> /\ ys = <<>> /\ zs = <<>>
    /\ main = NoMain /\ readers = NoReaders

NextConfig ==
    \/ SetOdr({10, 20})
    \/ FifoEnable

SpecConfig == InitConfig /\ [][NextConfig]_vars

----------------------------------------------------------------------------
(* The example's main: the driver constructed with its defaults, then      *)
(* fifo_enable(True) and set_odr(10), then the polling loop over a FIFO    *)
(* that starts empty.                                                      *)

InitMain ==
    /\ \E fill \in FillBytes :
          LET s1 == __init__(StartFrom(PowerOn(WHOAMI_EXPECTED, fill), <<>>, 0),
                             ACCEL_FS_SEL_2G, GYRO_FS_SEL_250DPS)
              s2 == fifo_enable(StartFrom(s1.regs, <<>>, 0), TRUE)
              s3 == set_odr(StartFrom(s2.regs, <<>>, 0), 10)
          IN  /\ regs = s3.regs
              /\ log = s3.log
    /\ call = [op |-> "set_odr", arg |-> <<10>>, result |-> "ok", ret |-> <<>>]
    /\ constructed = TRUE
    /\ accel_so = AccelSo(ACCEL_FS_SEL_2G) /\ gyro_so = GyroSo(GYRO_FS_SEL_250DPS)
    /\ accel_sf = Sf_M_S2 /\ gyro_sf = Sf_DEG_S /\ gyro_offset = ZeroTriple
    /\ pc = "idle"
    /\ cal = NoCal
    /\ faults = 0
    /\ fifo_bytes = 0
    /\ buf = Zeros(bytes_per_sample * threshold)
    /\ xs = Zeros(threshold) /\ ys = Zeros(threshold) /\ zs = Zeros(threshold)
    /\ main = [pc |-> "poll", count |-> 0, samples_read |-> 0]
    /\ readers = NoReaders

NextMain ==
    \/ DeviceSample
    \/ MainPoll
    \/ MainRead
    \/ MainAfter
    \/ MainDecode
    \/ MainSleep

SpecMain == InitMain /\ [][NextMain]_vars

----------------------------------------------------------------------------
(* Two threads reading the sensors through one driver module.              *)

InitShared ==
    /\ Constructed(0, <<ACCEL_FS_SEL_2G, GYRO_FS_SEL_250DPS>>,
                   <<Sf_M_S2, Sf_DEG_S, ZeroTriple>>)
    /\ fifo_bytes = 0
    /\ buf = Zeros(6)
    /\ xs = <<>> /\ ys = <<>> /\ zs = <<>>

NextShared ==
    \E t \in {1, 2} :
       \/ ReaderFill(t)
       \/ ReaderUnpack(t)
       \/ ReaderDone(t)

SpecShared == InitShared /\ [][NextShared]_vars

----------------------------------------------------------------------------
(* The claims.                                                             *)

IsWrite(e) == e.k = "w"
IsDivisorWrite(e) == e.k = "w" /\ e.reg = 25

\* C1: when the identity register (0x75) reads a value other than 0x19,
\* construction fails with the device-not-found error (RuntimeError), and
\* the identity read is the only bus transaction of the call: no register
\* is written.
C1_IdentityMismatchAborts ==
    (/\ call.op = "__init__"
     /\ Len(log) >= 1
     /\ log[1].ok
     /\ log[1].data # <<25>>)
    => /\ call.result = "RuntimeError"
       /\ ~constructed
       /\ Len(log) = 1
       /\ log[1].k = "r" /\ log[1].reg = 117
       /\ SelectSeq(log, IsWrite) = <<>>

C1_Witness ==
    /\ call.op = "__init__"
    /\ call.result = "RuntimeError"
    /\ log = <<[k |-> "r", reg |-> 117, data |-> <<104>>, ok |-> TRUE]>>

\* The divisor the documentation gives for an output data rate.
DocumentedDivisor(hz) ==
    CASE hz = 10 -> 99
      [] hz = 50 -> 19
      [] hz = 100 -> 9
      [] hz = 200 -> 4
      [] hz = 250 -> 3

\* C2: set_odr with a rate of 10, 50, 100, 200 or 250 Hz that returns has
\* written the documented divisor (99, 19, 9, 4, 3), once, to the
\* sample-rate divisor register 0x19, and fails only on a transport error;
\* with any other rate it fails, with the unsupported-rate error (KeyError)
\* unless the transport failed first, and writes nothing to register 0x19.
C2_OdrDivisor ==
    call.op = "set_odr" =>
        LET odr == call.arg[1]
            w == SelectSeq(log, IsDivisorWrite)
        IN  IF odr \in {10, 50, 100, 200, 250}
            THEN /\ call.result \in {"ok", "OSError"}
                 /\ call.result = "ok" =>
                       /\ Len(w) = 1
                       /\ w[1].ok
                       /\ w[1].data = <<DocumentedDivisor(odr)>>
                       /\ regs[25] = DocumentedDivisor(odr)
            ELSE /\ call.result \in {"KeyError", "OSError"}
                 /\ call.result = "OSError" => ~log[Len(log)].ok
                 /\ w = <<>>

C2_Witness ==
    /\ call.op = "set_odr"
    /\ call.arg = <<200>>
    /\ call.result = "ok"
    /\ regs[25] = 4

\* C3: a set_odr call that fails on an unsupported rate leaves every device
\* register as it was before the call.
C3_FailedOdrLeavesDevice ==
    [][(call'.op = "set_odr" /\ call'.result = "KeyError") => regs' = regs]_vars

----------------------------------------------------------------------------

\* C4: read_samples_into on a buffer whose length is no multiple of 8 fails
\* with the invalid-argument error, on one whose length is a multiple of 8
\* above 1024 with the capacity-exceeded error (both are ValueError, told
\* apart by their text), and in either case no bus transaction is issued.
C4_BadLengthRejected ==
    call.op = "read_samples_into" =>
        LET n == call.arg[1]
        IN  /\ n % 8 # 0 =>
                  /\ call.result = "ValueError: Buffer should be a multiple of 6"
                  /\ log = <<>>
            /\ (n % 8 = 0 /\ n > 1024) =>
                  /\ call.result = "ValueError: Requested samples exceeds FIFO capacity"
                  /\ log = <<>>

C4_Witness ==
    /\ call.op = "read_samples_into"
    /\ call.arg = <<1032>>
    /\ call.result = "ValueError: Requested samples exceeds FIFO capacity"
    /\ log = <<>>

\* C5: with a byte count b in 0..1024 in the FIFO count registers, read as
\* the two bytes b div 256, b mod 256 from 0x72, get_fifo_count returns
\* floor(b / 8), and the call writes no register.
C5_FifoCountFloor ==
    call.op = "get_fifo_count" =>
        /\ SelectSeq(log, IsWrite) = <<>>
        /\ call.result = "ok" =>
              /\ fifo_bytes \in 0..1024
              /\ Len(log) = 1
              /\ log[1].k = "r" /\ log[1].reg = 114
              /\ log[1].data[1] * 256 + log[1].data[2] = fifo_bytes
              /\ 8 * call.ret <= fifo_bytes
              /\ fifo_bytes < 8 * call.ret + 8

C5_Witness ==
    /\ call.op = "get_fifo_count"
    /\ call.result = "ok"
    /\ fifo_bytes = 1023
    /\ call.ret = 127

\* v is the signed 16-bit value of the two bytes hi, lo, high byte first.
IsInt16BE(v, hi, lo) ==
    /\ v \in -32768..32767
    /\ (v - (hi * 256 + lo)) % 65536 = 0

\* C6: on a buffer of n 8-byte records and three arrays of length n,
\* deinterleave_samples returns, and xs[i], ys[i], zs[i] are then the
\* big-endian signed 16-bit values of bytes 0-1, 2-3, 4-5 of record i, for
\* every i: bytes 6-7 of a record reach no output.
C6_Deinterleave ==
    (/\ call.op = "deinterleave_samples"
     /\ Len(buf) % 8 = 0
     /\ Len(xs) * 8 = Len(buf) /\ Len(ys) * 8 = Len(buf) /\ Len(zs) * 8 = Len(buf))
    => /\ call.result = "ok"
       /\ \A i \in 0..(Len(xs) - 1) :
             /\ IsInt16BE(xs[i + 1], buf[8 * i + 1], buf[8 * i + 2])
             /\ IsInt16BE(ys[i + 1], buf[8 * i + 3], buf[8 * i + 4])
             /\ IsInt16BE(zs[i + 1], buf[8 * i + 5], buf[8 * i + 6])

C6_Witness ==
    /\ call.op = "deinterleave_samples"
    /\ call.result = "ok"
    /\ Len(buf) = 24
    /\ buf[7] = 18 /\ buf[8] = 52
    /\ xs = <<100, -32768, 1>>
    /\ ys = <<-50, 32767, 256>>
    /\ zs = <<1000, -1, 128>>

\* C7: deinterleave_samples on a buffer whose length is no multiple of 8, or
\* with xs, ys or zs of a length other than len(buffer) / 8, fails with the
\* precondition error (AssertionError) and leaves xs, ys and zs as they were.
C7_DeinterleaveRejects ==
    [][(/\ call'.op = "deinterleave_samples"
        /\ \/ Len(buf) % 8 # 0
           \/ Len(xs) # Len(buf) \div 8
           \/ Len(ys) # Len(buf) \div 8
           \/ Len(zs) # Len(buf) \div 8)
       => /\ call'.result = "AssertionError"
          /\ xs' = xs /\ ys' = ys /\ zs' = zs]_vars

C7_Witness ==
    /\ call.op = "deinterleave_samples"
    /\ call.result = "AssertionError"
    /\ Len(buf) = 16
    /\ Len(xs) = 2 /\ Len(ys) = 2 /\ Len(zs) = 1
    /\ xs = <<7, 7>>

\* The documented sensitivity divisors, in tenths, by the full-scale bits
\* (bits 4:3) of a configuration register.
FullScaleBits(v) == ((v \div 8) % 4) * 8

DocumentedAccelDivisor(bits) ==
    CASE bits = 0 -> 163840      \* 2G: 16384
      [] bits = 8 -> 81920       \* 4G: 8192
      [] bits = 16 -> 40960      \* 8G: 4096
      [] bits = 24 -> 20480      \* 16G: 2048

DocumentedGyroDivisor(bits) ==
    CASE bits = 0 -> 1310        \* 250 dps: 131
      [] bits = 8 -> 625         \* 500 dps: 62.5
      [] bits = 16 -> 328        \* 1000 dps: 32.8
      [] bits = 24 -> 164        \* 2000 dps: 16.4

\* C8: from a successful construction on, with any of the four accelerometer
\* and any of the four gyroscope selectors, the stored divisors are the
\* documented values for the selectors passed, and stay the documented
\* values for the full-scale bits the device holds in ACCEL_CONFIG and
\* GYRO_CONFIG, through every later set_odr, fifo_enable, calibrate and read.
C8_DivisorsMatchSelectors ==
    /\ constructed =>
          /\ accel_so = DocumentedAccelDivisor(FullScaleBits(regs[28]))
          /\ gyro_so = DocumentedGyroDivisor(FullScaleBits(regs[27]))
    /\ (call.op = "__init__" /\ call.result = "ok") =>
          /\ constructed
          /\ accel_so = DocumentedAccelDivisor(call.arg[1])
          /\ gyro_so = DocumentedGyroDivisor(call.arg[2])

C8_Witness ==
    /\ constructed
    /\ call.op = "set_odr" /\ call.result = "ok"
    /\ regs[28] = 16 /\ accel_so = 40960
    /\ regs[27] = 8 /\ gyro_so = 625

\* The raw gyro triples read in the call, in order.
IsGyroRead(e) == e.k = "r" /\ e.reg = 67 /\ e.ok

\* Two bytes as a two's-complement number: the high byte counts signed.
SignedWord(hi, lo) == 256 * (IF hi < 128 THEN hi ELSE hi - 256) + lo

RawOf(e) == [i \in 1..3 |-> SignedWord(e.data[2 * i - 1], e.data[2 * i])]

RECURSIVE SumAxis(_, _)
SumAxis(reads, i) ==
    IF reads = <<>> THEN 0
    ELSE RawOf(reads[1])[i] + SumAxis(Tail(reads), i)

\* C9: calibrate(count, delay) with count >= 1 that returns has read the
\* gyro count times, returns on each axis the mean of those readings, each
\* reading raw / divisor * factor with no offset taken off, and has stored
\* the triple it returns as the gyro offset.
C9_CalibrateMean ==
    (call.op = "calibrate" /\ call.result = "ok") =>
        LET count == call.arg[1]
            reads == SelectSeq(log, IsGyroRead)
        IN  /\ count >= 1
            /\ Len(reads) = count
            /\ call.ret = gyro_offset
            /\ \A i \in 1..3 :
                  gyro_offset[i][1] * (count * gyro_so * gyro_sf[2])
                    = gyro_offset[i][2] * (SumAxis(reads, i) * 10 * gyro_sf[1])

C9_Witness ==
    /\ call.op = "calibrate" /\ call.result = "ok"
    /\ call.arg[1] = 4
    /\ gyro_so = 1310 /\ gyro_sf = <<1, 1>>
    /\ LET reads == SelectSeq(log, IsGyroRead)
       IN  /\ Len(reads) = 4
           /\ RawOf(reads[1]) = <<262, 0, 0>>
           /\ RawOf(reads[2]) = <<524, 0, 0>>
           /\ RawOf(reads[3]) = <<0, 0, 0>>
           /\ RawOf(reads[4]) = <<262, 0, 0>>
    /\ gyro_offset = <<<<2, 1>>, <<0, 1>>, <<0, 1>>>>

\* C10: calibrate with a count of 0 never divides by the zero count: the
\* call ends without a ZeroDivisionError.
C10_ZeroCountNoDivision ==
    (call.op = "calibrate" /\ call.arg[1] = 0 /\ pc = "idle")
    => call.result # "ZeroDivisionError"

\* C11: a construction that succeeds makes its writes in this order: the
\* reset bit (0x80) to PWR_MGMT_1, the settle delay, the clock-autoselect
\* bit (0x01) to PWR_MGMT_1, then the accelerometer and the gyroscope
\* full-scale writes; nothing is written before the reset.
C11_ConstructionOrder ==
    (call.op = "__init__" /\ call.result = "ok")
    => /\ Len(log) = 6
       /\ log[1].k = "r" /\ log[1].reg = 117
       /\ log[2] = [k |-> "w", reg |-> 107, data |-> <<128>>, ok |-> TRUE]
       /\ log[3].k = "sleep" /\ log[3].data = <<100>>
       /\ log[4] = [k |-> "w", reg |-> 107, data |-> <<1>>, ok |-> TRUE]
       /\ log[5] = [k |-> "w", reg |-> 28, data |-> <<call.arg[1]>>, ok |-> TRUE]
       /\ log[6] = [k |-> "w", reg |-> 27, data |-> <<call.arg[2]>>, ok |-> TRUE]

C11_Witness ==
    /\ call.op = "__init__" /\ call.result = "ok"
    /\ call.arg = <<24, 24>>
    /\ Len(SelectSeq(log, IsWrite)) = 4

Bit(x, k) == (x \div Pow2(k)) % 2

\* C12: a fifo_enable that completes leaves CONFIG bit 7 and the FIFO-mode
\* bit 6 clear, whatever CONFIG held, and every other CONFIG bit as it was;
\* once clear, the FIFO-mode bit stays clear over every later set_odr and
\* fifo_enable call.
C12_FifoModeCleared ==
    [][/\ (call'.op = "fifo_enable" /\ call'.result = "ok")
          => /\ Bit(regs'[26], 7) = 0
             /\ Bit(regs'[26], 6) = 0
             /\ regs'[26] % 64 = regs[26] % 64
       /\ (Bit(regs[26], 6) = 0 /\ call'.op \in {"set_odr", "fifo_enable"})
          => Bit(regs'[26], 6) = 0]_vars

C12_Witness ==
    /\ call.op = "fifo_enable" /\ call.result = "ok"
    /\ log[1] = [k |-> "r", reg |-> 26, data |-> <<255>>, ok |-> TRUE]
    /\ regs[26] = 63

\* C13: a transport failure is neither retried nor suppressed: the failed
\* transaction is the last entry of the call's log (nothing is issued after
\* it, and it is the only failure), and the call that made it, and no other,
\* ends with the transport's OSError.
C13_NoRetry ==
    /\ \A i \in 1..Len(log) : ~log[i].ok => i = Len(log)
    /\ (\E i \in 1..Len(log) : ~log[i].ok) <=> call.result = "OSError"
    /\ call.result = "OSError" => pc = "idle"

C13_Witness ==
    /\ call.op = "set_odr" /\ call.result = "OSError"
    /\ Len(log) = 4
    /\ ~log[4].ok /\ log[4].k = "w"

\* C14: a set_odr that succeeds writes, in this order, PWR_MGMT_1 (what it
\* read with the cycle bit 5 set), ACCEL_CONFIG2 (what it read with the low
\* six bits replaced by 000111), SMPLRT_DIV (the divisor), GYRO_CONFIG (what
\* it read with bits 1:0 clear) and CONFIG (what it read with bit 7 clear
\* and bits 2:0 = 001): the CONFIG write comes after the divisor write.
C14_OdrWriteOrder ==
    (call.op = "set_odr" /\ call.result = "ok")
    => /\ Len(log) = 9
       /\ \A i \in 1..9 : log[i].ok
       /\ [i \in 1..9 |-> log[i].k]
            = <<"r", "w", "r", "w", "w", "r", "w", "r", "w">>
       /\ [i \in 1..9 |-> log[i].reg]
            = <<107, 107, 29, 29, 25, 27, 27, 26, 26>>
       /\ log[2].data[1] = log[1].data[1] - 32 * Bit(log[1].data[1], 5) + 32
       /\ log[4].data[1] = 64 * (log[3].data[1] \div 64) + 7
       /\ log[5].data[1] = DocumentedDivisor(call.arg[1])
       /\ log[7].data[1] = 4 * (log[6].data[1] \div 4)
       /\ log[9].data[1] = 8 * ((log[8].data[1] % 128) \div 8) + 1

C14_Witness ==
    /\ call.op = "set_odr" /\ call.result = "ok"
    /\ call.arg = <<10>>
    /\ log[8].data = <<255>>
    /\ log[9].data = <<121>>
    /\ regs[25] = 99

\* The condition under which the divisor in SMPLRT_DIV takes effect:
\* FCHOICE_B (GYRO_CONFIG bits 1:0) is 00 and DLPF_CFG (CONFIG bits 2:0) is 1.
DivisorEffective(r) == r[27] % 4 = 0 /\ r[26] % 8 = 1

\* C15: a set_odr that succeeds leaves the device with the divisor
\* effective (GYRO_CONFIG bits 1:0 = 00, CONFIG bits 2:0 = 1), and no later
\* call (fifo_enable, set_odr, get_fifo_count, read_samples_into, a direct
\* read, calibrate), failed or not, ends that condition.
C15_DivisorStaysEffective ==
    [][/\ (call'.op = "set_odr" /\ call'.result = "ok")
          => DivisorEffective(regs')
       /\ DivisorEffective(regs) => DivisorEffective(regs')]_vars

C15_Witness ==
    /\ call.op = "fifo_enable" /\ call.result = "ok"
    /\ regs[25] = 99
    /\ regs[26] = 57
    /\ DivisorEffective(regs)

\* C16: when a calibrate call ends, by returning or by failing (a transport
\* error, a zero count), the stored gyro offset is the mean the call
\* returns or else the offset that was stored when the call began: the zero
\* triple the call starts from is not left behind.
C16_OffsetMeanOrPrior ==
    [][(pc = "calibrate" /\ pc' = "idle")
       => IF call'.result = "ok"
          THEN gyro_offset' = call'.ret
          ELSE gyro_offset' = cal.before]_vars

\* C17: calibrate(count, delay) issues count gyro reads when count >= 0 and
\* none when count < 0: at no moment of a call has it made more reads than
\* that, and a call that ended without a transport error has made exactly
\* that many.
C17_CalibrateReadsCount ==
    call.op = "calibrate"
    => LET reads == Len(SelectSeq(log, IsGyroRead))
           due == IF call.arg[1] > 0 THEN call.arg[1] ELSE 0
       IN  /\ reads <= due
           /\ (pc = "idle" /\ call.result # "OSError") => reads = due

\* C18: the polling loop makes a bulk read only as the call next after a
\* get_fifo_count that returned at least threshold samples, with a buffer
\* of exactly threshold * 8 bytes, which is no more than the FIFO held at
\* that poll (8 bytes for each sample counted) or holds now; and
\* samples_read grows by threshold with each bulk read made, and only then.
C18_BulkReadAfterPoll ==
    [][/\ (call'.op = "read_samples_into" /\ call.op # "read_samples_into")
          => /\ call.op = "get_fifo_count" /\ call.result = "ok"
             /\ call.ret >= 10
             /\ call'.arg = <<80>>
             /\ Len(buf) = 80
             /\ 80 <= 8 * call.ret
             /\ 80 <= fifo_bytes
             /\ call'.result = "ok"
                => main'.samples_read = main.samples_read + 10
             /\ call'.result # "ok"
                => main'.samples_read = main.samples_read
       /\ main'.samples_read # main.samples_read
          => (call'.op = "read_samples_into" /\ call.op # "read_samples_into")
      ]_vars

C18_Witness ==
    /\ call.op = "read_samples_into" /\ call.result = "ok"
    /\ main.samples_read = 20
    /\ main.count = 11
    /\ fifo_bytes = 8

\* C19: a register read returns the bytes its own bus transaction
\* delivered, also when another thread's read runs in between: the scratch
\* buffer of one call is never written by another.
C19_ReadsOwnBytes ==
    \A t \in {1, 2} :
       readers[t].pc = "done"
       => readers[t].ret = unpack_hhh(readers[t].delivered, 0)

\* C20: what fifo_enable does on the bus and leaves in the registers does
\* not depend on its enable argument: a call that completes, whichever
\* value it was given, has made the transactions and left the registers
\* that fifo_enable(True) and fifo_enable(False) each make and leave from
\* the registers it started on, with the accelerometer routed to the FIFO
\* (FIFO_EN bit 3) and the FIFO enabled (USER_CTRL bit 6).
C20_EnableArgumentIgnored ==
    [][(call'.op = "fifo_enable" /\ call'.result = "ok")
       => /\ \A e \in BOOLEAN :
                LET s == fifo_enable(StartFrom(regs, <<>>, 0), e)
                IN  s.log = log' /\ s.regs = regs'
          /\ Bit(regs'[35], 3) = 1
          /\ Bit(regs'[106], 6) = 1]_vars

C20_Witness ==
    /\ call.op = "fifo_enable" /\ call.result = "ok"
    /\ call.arg = <<FALSE>>
    /\ Len(log) = 6
    /\ Bit(regs[35], 3) = 1
    /\ Bit(regs[106], 6) = 1

====
